---- MODULE Spec2Model ----
(***************************************************************************)
(* The MediaPlayer controller of src/media_player.py as a state machine:   *)
(* the controller's fields, the widgets it writes, the Qt polling timer    *)
(* and the libvlc player it drives.  Every handler is one action; the      *)
(* decoder runs on its own thread and has its own actions.                 *)
(*                                                                         *)
(* Units: times handed to and read from the decoder are milliseconds, the  *)
(* controller's track_current_time / track_total_time are seconds, speeds  *)
(* are tenths (0.5 -> 5, 1 -> 10, 1.5 -> 15, 2 -> 20).                     *)
(***************************************************************************)
EXTENDS Integers, Sequences, FiniteSets, TLC

VARIABLES
    track,                      \* self.track: the vlc.Media handle ("None" or the path it was made from)
    track_name,                 \* self.track_name
    player,                     \* self.player: the libvlc media player
    track_speed,                \* self.track_speed, in tenths
    track_current_time,         \* self.track_current_time, seconds
    track_total_time,           \* self.track_total_time, seconds
    track_timer,                \* self.track_timer.isActive()
    track_title,                \* text of the track_title label
    track_current_time_label,   \* text of the current-time label
    track_total_time_label,     \* text of the total-duration label
    track_bar,                  \* value of the progress bar
    speed_button,               \* speed shown on the speed button's image, in tenths
    err,                        \* exception raised by the last handler, "none" if it returned
    log,                        \* history: the decoder calls the last step made, in order
    last,                       \* history: the last step (a handler or the decoder's own), its arguments,
                                \*          and the decoder state and speed it began with
    fn_call,                    \* a function called on its own: its name and arguments
    fn_result,                  \* what that call returned, "unset" before it returns
    speech,                     \* PdfToAudio.speech: "None" or the name of a temp file
    files,                      \* the temp files on disk: name -> "audio" or "empty"
    registered,                 \* the temp files atexit will hand to cleanup_tempfile
    copies,                     \* the copies shutil.copy has made: <<source, destination>>
    process,                    \* "running", "exited" (interpreter exit) or "aborted"
    stages,                     \* history: the stages the last load_pdf went through
    console                     \* history: what the last load_pdf printed

vars == <<track, track_name, player, track_speed, track_current_time,
          track_total_time, track_timer, track_title, track_current_time_label,
          track_total_time_label, track_bar, speed_button, err, log, last,
          fn_call, fn_result, speech, files, registered, copies, process,
          stages, console>>

\* The state of the application around its MediaPlayer.
appvars == <<speech, files, registered, copies, process, stages, console>>

-----------------------------------------------------------------------------
(* Bounds of the model *)

\* seconds of the longest audio file
MaxDur == 3
\* pixels of the progress bar's width
BarWidth == 2
\* largest number of seconds given to skip_forward / skip_backwards
MaxSkip == 1
\* largest number of seconds given to format_time on its own
MaxSeconds == 6100
\* largest number of temp files text_to_speech creates in one run
MaxConversions == 2

-----------------------------------------------------------------------------
(* Program constants *)

track_update_rate == 1000

track_speed_list == <<5, 10, 15, 20>>

\* The decoder's clock is observed twice per polling period.
ClockStep == track_update_rate \div 2

-----------------------------------------------------------------------------
(* The files load_audio is given *)

Paths == {"a.mp3", "b.mp3", "missing.mp3"}

\* The calls made: a file with the name given for it.
LoadArgs == {<<"a.mp3", "A">>, <<"b.mp3", "B">>, <<"missing.mp3", "B">>}

\* Whether libvlc can open and decode the file.
Readable(path) ==
    \/ path \in {"a.mp3", "b.mp3"}
    \/ path \in DOMAIN files /\ files[path] = "audio"

\* Duration in milliseconds of a readable file.
FileDuration(path) ==
    CASE path = "a.mp3" -> MaxDur * 1000
      [] path = "b.mp3" -> 1000
      [] path \in DOMAIN files /\ files[path] = "audio" -> 2000
      [] OTHER -> 0

\* What track.get_duration() may return after track.parse(): the duration
\* of a parsed file; -1 (not parsed) or 0 (parsed, nothing found) otherwise.
get_duration(path) ==
    IF Readable(path) THEN {FileDuration(path)} ELSE {-1, 0}

-----------------------------------------------------------------------------
(* The file system and Widget.check_path *)

\* The regular files that exist.
Files == {"doc.pdf", "locked.pdf", "DOC.PDF", "notes.txt", "noext",
          "pic.jpg", "pic.png", "pic.jpeg", "pic.gif",
          "a.mp3", "b.wav", "c.ogg", "d.raw"}

\* The directories that exist; "." is what Path('') denotes.
Folders == {".", "assets", "dir.pdf"}

\* The paths check_path is asked about; "" is a cancelled file dialog.
AskedPaths == Files \cup Folders \cup {"", "gone.pdf", "gone.mp3", "gone"}

\* The types check_path is asked for.
AskedTypes == {"image", "pdf", "audio", "folder", "video"}

\* pathlib.Path(path): the empty string is the current directory.
PathOf(path) == IF path = "" THEN "." ELSE path

\* Path.exists()
Exists(path) == path \in Files \cup Folders

\* Path.is_file()
IsFile(path) == path \in Files

\* Path.suffix: the name from its last dot on, if that dot is not its first
\* character.
Suffix(path) ==
    LET dots == {i \in 2..Len(path) : SubSeq(path, i, i) = "."}
    IN  IF dots = {}
        THEN ""
        ELSE SubSeq(path, CHOOSE i \in dots : \A j \in dots : j <= i, Len(path))

\* Widget.check_path: the path, "False", or "None" where the function ends
\* without a return statement.
check_path(path, type) ==
    LET temp_path == PathOf(path)
    IN  IF Exists(temp_path) /\ IsFile(temp_path)
        THEN CASE type = "image" /\ Suffix(temp_path) \in {".jpg", ".png", ".jpeg"} -> temp_path
               [] type = "pdf" /\ Suffix(temp_path) \in {".pdf"} -> temp_path
               [] type = "audio" /\ Suffix(temp_path) \in {".ogg", ".wav", ".mp3", ".raw"} -> temp_path
               [] OTHER -> "None"
        ELSE IF type = "folder" /\ Exists(temp_path)
             THEN temp_path
             ELSE "False"

\* Whether check_path prints "Incorrect file path".
check_path_prints(path, type) ==
    LET temp_path == PathOf(path)
    IN  /\ ~(Exists(temp_path) /\ IsFile(temp_path))
        /\ ~(type = "folder" /\ Exists(temp_path))

\* Python's truth value of what check_path returns.
Truthy(value) == value \notin {"False", "None", ""}

-----------------------------------------------------------------------------
(* The libvlc media player (vlc.MediaPlayer), as python-vlc exposes it *)

States == {"NothingSpecial", "Opening", "Playing", "Paused", "Stopped", "Ended", "Error"}

NewPlayer == [state |-> "NothingSpecial", media |-> "None", time |-> 0, rate |-> 10]

\* An input thread exists from play() until stop() or set_media().
HasInput(p) == p.state \in {"Opening", "Playing", "Paused", "Ended", "Error"}

\* The input thread can still take a seek.
Live(p) == p.state \in {"Opening", "Playing", "Paused"}

Min(a, b) == IF a < b THEN a ELSE b

Max(a, b) == IF a > b THEN a ELSE b

\* player.get_time(): -1 without an input thread.
VlcGetTime(p) == IF HasInput(p) THEN p.time ELSE -1

\* player.play(): fails without media; resumes a paused input; starts a new
\* input (asynchronously: Opening first) when there is none; a live or dead
\* input is left as it is.
VlcPlay(p) ==
    CASE p.media = "None" -> p
      [] p.state = "Paused" -> [p EXCEPT !.state = "Playing"]
      [] p.state \in {"NothingSpecial", "Stopped"} -> [p EXCEPT !.state = "Opening", !.time = 0]
      [] OTHER -> p

\* player.pause() toggles: it pauses a playing input and resumes any other.
VlcPause(p) ==
    CASE p.state = "Playing" -> [p EXCEPT !.state = "Paused"]
      [] p.state = "Paused" -> [p EXCEPT !.state = "Playing"]
      [] OTHER -> p

\* player.stop(): releases the input thread.
VlcStop(p) == [p EXCEPT !.state = "Stopped", !.time = 0]

\* player.set_time(ms): ignored without a live input; the input takes a
\* negative time as 0 and a time past the end as the end.
VlcSetTime(p, ms) ==
    IF Live(p)
    THEN [p EXCEPT !.time = Max(0, Min(ms, FileDuration(p.media)))]
    ELSE p

\* player.set_rate(rate)
VlcSetRate(p, rate) == [p EXCEPT !.rate = rate]

\* player.set_media(media): releases the input thread of the previous media.
VlcSetMedia(p, media) == [p EXCEPT !.state = "NothingSpecial", !.media = media, !.time = 0]

-----------------------------------------------------------------------------
(* Widgets *)

\* QProgressBar.setValue on the bar's range 0..100 (ScaleBar sets the range):
\* a value outside the range is ignored.
setValue(bar, value) == IF value < 0 \/ value > 100 THEN bar ELSE value

\* Python's f"{n:02}"
Pad2(n) == IF 0 <= n /\ n < 10 THEN "0" \o ToString(n) ELSE ToString(n)

\* format_time with the minutes wrapped at the hour
format_time_hour_wrapped(seconds) ==
    LET mins == (seconds \div 60) % 60
        secs == seconds % 60
    IN  Pad2(mins) \o ":" \o Pad2(secs)

\* MediaPlayer.format_time
format_time(seconds) ==
    LET mins == seconds \div 60
        secs == seconds % 60
    IN  Pad2(mins) \o ":" \o Pad2(secs)

\* Python's int(a / b * 100) for integers a and b # 0: truncation to zero.
IntPercent(a, b) ==
    LET Abs(n) == IF n < 0 THEN -n ELSE n
        q == (Abs(a) * 100) \div Abs(b)
    IN  IF (a >= 0) = (b > 0) THEN q ELSE -q

\* Python's math.ceil(value / 100 * total)
CeilPercentOf(value, total) == -((-(value * total)) \div 100)

-----------------------------------------------------------------------------
(* The controller object and its methods.  A method takes the object's     *)
(* state as a record and gives the state it leaves.                        *)

Self ==
    [track |-> track, track_name |-> track_name, player |-> player,
     track_speed |-> track_speed, track_current_time |-> track_current_time,
     track_total_time |-> track_total_time, track_timer |-> track_timer,
     track_title |-> track_title,
     track_current_time_label |-> track_current_time_label,
     track_total_time_label |-> track_total_time_label,
     track_bar |-> track_bar, speed_button |-> speed_button,
     err |-> "none", log |-> <<>>]

\* A call on self.player, recorded in the log with the state it leaves.
Call(self, name, arg, p) ==
    [self EXCEPT !.player = p,
                 !.log = Append(@, [call |-> name, arg |-> arg, state |-> p.state])]

\* MediaPlayer.load_audio; duration is what track.get_duration() returns.
load_audio(self, file_path, file, file_name, duration) ==
    IF file_path # "None"
    THEN \* Widget.check_path(file_path, 'audio') lacks an argument
         [self EXCEPT !.err = "TypeError"]
    ELSE LET named == [self EXCEPT !.track_name = file_name]
         IN  IF file = "None"
             THEN \* audio_path was never assigned
                  [named EXCEPT !.err = "UnboundLocalError"]
             ELSE LET set == Call(named, "set_media", 0, VlcSetMedia(named.player, file))
                      total == duration \div 1000
                  IN  [set EXCEPT !.track = file,
                                  !.track_title = file_name,
                                  !.track_total_time = total,
                                  !.track_total_time_label = format_time(total)]

\* MediaPlayer.play
play(self) ==
    Call([self EXCEPT !.track_timer = TRUE], "play", 0, VlcPlay(self.player))

\* MediaPlayer.pause
pause(self) ==
    LET paused == Call(self, "pause", 0, VlcPause(self.player))
    IN  [paused EXCEPT !.track_timer = FALSE]

\* reset_player without its last line, track_timer.stop()
reset_player_timer_left(self) ==
    [self EXCEPT !.track_current_time = 0,
                 !.track_bar = setValue(@, 0),
                 !.track_current_time_label = format_time(0)]

\* MediaPlayer.reset_player
reset_player(self) ==
    [self EXCEPT !.track_current_time = 0,
                 !.track_bar = setValue(@, 0),
                 !.track_current_time_label = format_time(0),
                 !.track_timer = FALSE]

\* MediaPlayer.stop
stop(self) ==
    reset_player(Call(self, "stop", 0, VlcStop(self.player)))

\* MediaPlayer.skip_forward
skip_forward(self, seconds) ==
    LET current_time == VlcGetTime(self.player)
        target == current_time + seconds * 1000
    IN  Call(self, "set_time", target, VlcSetTime(self.player, target))

\* MediaPlayer.skip_backwards
skip_backwards(self, seconds) ==
    LET current_time == VlcGetTime(self.player)
        target == Max(0, current_time - seconds * 1000)
    IN  Call(self, "set_time", target, VlcSetTime(self.player, target))

\* What the decoder thread has done by the end of time.sleep(0.01): opened
\* the input, or not yet.
Slept(self, opened) ==
    IF opened /\ self.player.state = "Opening"
    THEN [self EXCEPT !.player.state =
              IF Readable(self.player.media) THEN "Playing" ELSE "Error"]
    ELSE self

\* MediaPlayer.seek
seek(self, seconds, opened) ==
    IF self.player.state # "Playing"
    THEN LET played == Slept(play(self), opened)
             set == Call(played, "set_time", seconds * 1000,
                         VlcSetTime(played.player, seconds * 1000))
         IN  pause(set)
    ELSE Call(self, "set_time", seconds * 1000,
              VlcSetTime(self.player, seconds * 1000))

\* MediaPlayer.set_speed
set_speed(self, speed) ==
    Call(self, "set_rate", speed, VlcSetRate(self.player, speed))

\* switch_speed wrapping to the default speed 1 instead of 0.5
switch_speed_wraps_to_default(self) ==
    LET found == {i \in 1..Len(track_speed_list) : track_speed_list[i] = self.track_speed}
    IN  IF found = {}
        THEN self
        ELSE LET index == CHOOSE i \in found : \A j \in found : i <= j
                 next == IF index + 1 <= Len(track_speed_list)
                         THEN track_speed_list[index + 1]
                         ELSE 10
                 sped == set_speed([self EXCEPT !.track_speed = next], next)
             IN  [sped EXCEPT !.speed_button = next]

\* MediaPlayer.switch_speed
switch_speed(self) ==
    LET found == {i \in 1..Len(track_speed_list) : track_speed_list[i] = self.track_speed}
    IN  IF found = {}
        THEN self
        ELSE LET index == CHOOSE i \in found : \A j \in found : i <= j
                 next == IF index + 1 <= Len(track_speed_list)
                         THEN track_speed_list[index + 1]
                         ELSE 5
                 sped == set_speed([self EXCEPT !.track_speed = next], next)
             IN  [sped EXCEPT !.speed_button = next]

\* update_player stopping as soon as the position read is one second from the end
update_player_stops_early(self) ==
    LET now == VlcGetTime(self.player) \div 1000
    IN  IF now >= self.track_total_time - 1
        THEN stop(self)
        ELSE [self EXCEPT
                !.track_current_time = now,
                !.track_bar = setValue(@, IntPercent(now, self.track_total_time)),
                !.track_current_time_label = format_time(now)]

\* MediaPlayer.update_player
update_player(self) ==
    IF self.track_current_time <= self.track_total_time - 1
    THEN LET now == VlcGetTime(self.player) \div 1000
             read == [self EXCEPT !.track_current_time = now]
         IN  IF self.track_total_time = 0
             THEN [read EXCEPT !.err = "ZeroDivisionError"]
             ELSE [read EXCEPT
                     !.track_bar = setValue(@, IntPercent(now, self.track_total_time)),
                     !.track_current_time_label = format_time(now)]
    ELSE stop(self)

\* MediaPlayer.track_bar_clicked, for a click at horizontal offset x
track_bar_clicked(self, x, opened) ==
    LET new_track_value == (x * 100) \div BarWidth
        target == CeilPercentOf(new_track_value, self.track_total_time)
        shown == [self EXCEPT !.track_current_time = target,
                              !.track_bar = setValue(@, new_track_value),
                              !.track_current_time_label = format_time(target)]
    IN  seek(shown, target, opened)

-----------------------------------------------------------------------------
(* The state machine *)

\* MediaPlayer.__init__ and load_ui
InitPlayer ==
    /\ track = "None"
    /\ track_name = "None"
    /\ player = NewPlayer
    /\ track_speed = 10
    /\ track_current_time = 0
    /\ track_total_time = 0
    /\ track_timer = FALSE
    /\ track_title = "[ NOT LOADED ]"
    /\ track_current_time_label = "00:00"
    /\ track_total_time_label = "00:00"
    /\ track_bar = 0
    /\ speed_button = 10
    /\ err = "none"
    /\ log = <<>>
    /\ last = [op |-> "init", path |-> "None", name |-> "None", n |-> 0,
               state |-> "NothingSpecial", speed |-> 10]

\* No function is called on its own.
NoCall == [name |-> "none", n |-> 0, path |-> "None", type |-> "None"]

\* PdfToAudio.__init__: nothing synthesized, nothing on disk.
InitApp ==
    /\ speech = "None"
    /\ files = <<>>
    /\ registered = {}
    /\ copies = {}
    /\ process = "running"
    /\ stages = <<>>
    /\ console = <<>>

Init ==
    /\ InitPlayer
    /\ InitApp
    /\ fn_call = NoCall
    /\ fn_result = "unset"

\* An unhandled exception in a Qt slot ends the process.
Alive == err # "ZeroDivisionError" /\ process = "running"

\* The handler named op, called with the given arguments, leaves state s.
Commit(s, op, path, name, n) ==
    /\ Alive
    /\ track' = s.track
    /\ track_name' = s.track_name
    /\ player' = s.player
    /\ track_speed' = s.track_speed
    /\ track_current_time' = s.track_current_time
    /\ track_total_time' = s.track_total_time
    /\ track_timer' = s.track_timer
    /\ track_title' = s.track_title
    /\ track_current_time_label' = s.track_current_time_label
    /\ track_total_time_label' = s.track_total_time_label
    /\ track_bar' = s.track_bar
    /\ speed_button' = s.speed_button
    /\ err' = s.err
    /\ log' = s.log
    /\ last' = [op |-> op, path |-> path, name |-> name, n |-> n,
                state |-> player.state, speed |-> track_speed]
    /\ UNCHANGED <<fn_call, fn_result>>
    /\ UNCHANGED appvars

\* load_audio(file=path, file_name=name), as pdf_to_audio calls it
LoadFile ==
    \E args \in LoadArgs :
        \E duration \in get_duration(args[1]) :
            Commit(load_audio(Self, "None", args[1], args[2], duration),
                   "load_audio", args[1], args[2], 0)

\* load_audio(file_path=path, file_name=name)
LoadPath ==
    \E args \in LoadArgs :
        \E duration \in get_duration(args[1]) :
            Commit(load_audio(Self, args[1], "None", args[2], duration),
                   "load_audio", args[1], args[2], 0)

\* load_audio(file_name=name)
LoadNothing ==
    \E args \in LoadArgs :
        Commit(load_audio(Self, "None", "None", args[2], 0),
               "load_audio", "None", args[2], 0)

Play == Commit(play(Self), "play", "None", "None", 0)

Pause == Commit(pause(Self), "pause", "None", "None", 0)

Stop == Commit(stop(Self), "stop", "None", "None", 0)

SkipForward ==
    \E seconds \in 0..MaxSkip :
        Commit(skip_forward(Self, seconds), "skip_forward", "None", "None", seconds)

SkipBackwards ==
    \E seconds \in 0..MaxSkip :
        Commit(skip_backwards(Self, seconds), "skip_backwards", "None", "None", seconds)

Seek ==
    \E seconds \in -1..(MaxDur + 1), opened \in BOOLEAN :
        Commit(seek(Self, seconds, opened), "seek", "None", "None", seconds)

SwitchSpeed == Commit(switch_speed(Self), "switch_speed", "None", "None", 0)

\* The polling timer fires.
Tick ==
    /\ track_timer
    /\ Commit(update_player(Self), "update_player", "None", "None", 0)

\* A left click on the progress bar.
BarClick ==
    \E x \in 0..(BarWidth - 1), opened \in BOOLEAN :
        Commit(track_bar_clicked(Self, x, opened), "track_bar_clicked", "None", "None", x)

\* The decoder thread, between two handlers.
DecoderStep(p) ==
    /\ Alive
    /\ player' = p
    /\ log' = <<>>
    /\ last' = [op |-> "decoder", path |-> "None", name |-> "None", n |-> 0,
                state |-> player.state, speed |-> track_speed]
    /\ UNCHANGED <<track, track_name, track_speed, track_current_time,
                   track_total_time, track_timer, track_title,
                   track_current_time_label, track_total_time_label,
                   track_bar, speed_button, err, fn_call, fn_result>>
    /\ UNCHANGED appvars

\* The input opens: playback begins, or the file cannot be decoded.
DecoderOpened ==
    /\ player.state = "Opening"
    /\ DecoderStep([player EXCEPT !.state =
           IF Readable(player.media) THEN "Playing" ELSE "Error"])

\* Playback advances the clock.
DecoderAdvance ==
    /\ player.state = "Playing"
    /\ player.time < FileDuration(player.media)
    /\ DecoderStep([player EXCEPT !.time =
           Min(@ + ClockStep, FileDuration(player.media))])

\* Playback reaches the end of the media.
DecoderEnded ==
    /\ player.state = "Playing"
    /\ player.time >= FileDuration(player.media) - ClockStep
    /\ DecoderStep([player EXCEPT !.state = "Ended"])

Next ==
    \/ LoadFile
    \/ LoadPath
    \/ LoadNothing
    \/ Play
    \/ Pause
    \/ Stop
    \/ SkipForward
    \/ SkipBackwards
    \/ Seek
    \/ SwitchSpeed
    \/ Tick
    \/ BarClick
    \/ DecoderOpened
    \/ DecoderAdvance
    \/ DecoderEnded

Spec == Init /\ [][Next]_vars

-----------------------------------------------------------------------------
(* PdfToAudio: the window around the MediaPlayer *)

\* What the open-file dialog may return; "" when it is cancelled.
PdfChoices == {"", "doc.pdf", "locked.pdf", "notes.txt", "gone.pdf", "assets"}

\* What the save-file dialog may return; "" when it is cancelled.
SaveChoices == {"", "out.mp3"}

\* How engine.save_to_file / engine.runAndWait may end: with playable audio
\* in the file, with nothing playable in it, or with an exception.
SynthOutcomes == {"audio", "empty", "raises"}

\* Whether PdfReader or page.extract_text() raises on the file.
ExtractRaises(pdf_path) == pdf_path = "locked.pdf"

\* str(pdf_path).split('.')[-2].split('\\')[-1], for a path with a dot in it
Stem(pdf_path) ==
    LET n == Len(pdf_path)
        dots == {i \in 1..n : SubSeq(pdf_path, i, i) = "."}
        end == CHOOSE i \in dots : \A j \in dots : j <= i
        before == {i \in dots : i < end}
        start == IF before = {} THEN 0 ELSE CHOOSE i \in before : \A j \in before : j <= i
        part == SubSeq(pdf_path, start + 1, end - 1)
        slashes == {i \in 1..Len(part) : SubSeq(part, i, i) = "\\"}
        cut == IF slashes = {} THEN 0 ELSE CHOOSE i \in slashes : \A j \in slashes : j <= i
    IN  SubSeq(part, cut + 1, Len(part))

\* The name NamedTemporaryFile gives to the next temp file.
TempName(fs) == "tmp" \o ToString(Cardinality(DOMAIN fs) + 1) \o ".mp3"

\* The PdfToAudio object with its MediaPlayer, the disk and the atexit
\* registry, at the start of a handler.
App ==
    [media_player |-> Self, speech |-> speech, files |-> files,
     registered |-> registered, copies |-> copies, process |-> process,
     stages |-> <<>>, console |-> <<>>, raised |-> "none"]

\* PdfToAudio.text_to_speech; it returns the name of the newest temp file.
text_to_speech(app, outcome) ==
    LET temp_filename == TempName(app.files)
        created == [app EXCEPT !.files = (temp_filename :> "empty") @@ @]
    IN  CASE outcome = "raises" -> [created EXCEPT !.raised = "RuntimeError"]
          [] outcome = "audio" ->
                [created EXCEPT !.files[temp_filename] = "audio",
                                !.registered = @ \cup {temp_filename}]
          [] OTHER -> [created EXCEPT !.registered = @ \cup {temp_filename}]

\* PdfToAudio.pdf_to_audio; duration is what track.get_duration() returns
\* for the synthesized file.
pdf_to_audio(app, pdf_path, outcome, duration) ==
    LET a1 == [app EXCEPT !.stages = Append(@, "extract_text")]
        file_name == Stem(pdf_path)
        a2 == text_to_speech([a1 EXCEPT !.stages = Append(@, "text_to_speech")], outcome)
        a3 == [a2 EXCEPT !.speech = TempName(app.files),
                         !.stages = Append(@, "load_audio")]
        loaded == load_audio(a3.media_player, "None", a3.speech, file_name, duration)
    IN  IF ExtractRaises(pdf_path)
        THEN [a1 EXCEPT !.raised = "PdfReadError"]
        ELSE IF a2.raised # "none"
             THEN a2
             ELSE [a3 EXCEPT !.media_player = loaded, !.raised = loaded.err]

\* PdfToAudio.load_pdf; file_name is what the dialog returned.
load_pdf(app, file_name, outcome, duration) ==
    LET file_path == check_path(file_name, "pdf")
        checked == [app EXCEPT !.stages = Append(@, "check_path"),
                               !.console = IF check_path_prints(file_name, "pdf")
                                           THEN Append(@, "Incorrect file path")
                                           ELSE @]
    IN  IF Truthy(file_path)
        THEN pdf_to_audio(checked, file_path, outcome, duration)
        ELSE checked

\* PdfToAudio.save_audio; file_name is what the dialog returned.
save_audio(app, file_name) ==
    IF app.media_player.track # "None"
    THEN CASE app.speech = "None" -> [app EXCEPT !.raised = "TypeError"]
           [] file_name = "" -> [app EXCEPT !.raised = "FileNotFoundError"]
           [] OTHER -> [app EXCEPT !.copies = @ \cup {<<app.speech, file_name>>}]
    ELSE app

\* PdfToAudio.cleanup_tempfile, as atexit runs it for every registered name
cleanup_tempfile(fs, names) ==
    [name \in DOMAIN fs \ names |-> fs[name]]

\* PdfToAudio.close: sys.exit(), and the interpreter's exit handlers.
close(app) ==
    [app EXCEPT !.files = cleanup_tempfile(@, app.registered),
                !.process = "exited"]

\* The slot named op leaves the application as a. An exception that leaves
\* the slot is printed and the event loop goes on, or it ends the process
\* without its exit handlers: which of the two is PyQt's choice.
CommitApp(a, op, path) ==
    /\ Alive
    /\ track' = a.media_player.track
    /\ track_name' = a.media_player.track_name
    /\ player' = a.media_player.player
    /\ track_speed' = a.media_player.track_speed
    /\ track_current_time' = a.media_player.track_current_time
    /\ track_total_time' = a.media_player.track_total_time
    /\ track_timer' = a.media_player.track_timer
    /\ track_title' = a.media_player.track_title
    /\ track_current_time_label' = a.media_player.track_current_time_label
    /\ track_total_time_label' = a.media_player.track_total_time_label
    /\ track_bar' = a.media_player.track_bar
    /\ speed_button' = a.media_player.speed_button
    /\ err' = a.raised
    /\ log' = a.media_player.log
    /\ last' = [op |-> op, path |-> path, name |-> "None", n |-> 0,
                state |-> player.state, speed |-> track_speed]
    /\ speech' = a.speech
    /\ files' = a.files
    /\ registered' = a.registered
    /\ copies' = a.copies
    /\ process' \in IF a.raised # "none" THEN {a.process, "aborted"} ELSE {a.process}
    /\ stages' = a.stages
    /\ console' = a.console
    /\ UNCHANGED <<fn_call, fn_result>>

\* The load button: the dialog, then load_pdf's check and the conversion.
LoadPdf ==
    /\ Cardinality(DOMAIN files) < MaxConversions
    /\ \E file_name \in PdfChoices, outcome \in SynthOutcomes :
          \E duration \in IF outcome = "audio" THEN {2000} ELSE {-1, 0} :
              CommitApp(load_pdf(App, file_name, outcome, duration),
                        "load_pdf", file_name)

\* The save button: the dialog, then the copy.
SaveAudio ==
    \E file_name \in SaveChoices :
        CommitApp(save_audio(App, file_name), "save_audio", file_name)

\* The exit button.
Close == CommitApp(close(App), "close", "None")

AppNext ==
    \/ LoadPdf
    \/ SaveAudio
    \/ Close
    \/ Play
    \/ Pause
    \/ Stop
    \/ Tick
    \/ DecoderOpened
    \/ DecoderAdvance
    \/ DecoderEnded

SpecApp == Init /\ [][AppNext]_vars

-----------------------------------------------------------------------------
\* format_time and check_path called on their own, on every argument of a
\* bounded set.
InitCalls ==
    /\ InitPlayer
    /\ InitApp
    /\ fn_result = "unset"
    /\ \/ \E seconds \in 0..MaxSeconds :
              fn_call = [name |-> "format_time", n |-> seconds,
                         path |-> "None", type |-> "None"]
       \/ \E path \in AskedPaths, type \in AskedTypes :
              fn_call = [name |-> "check_path", n |-> 0,
                         path |-> path, type |-> type]

\* The called function returns.
Returns(value) ==
    /\ fn_result = "unset"
    /\ fn_result' = value
    /\ UNCHANGED <<track, track_name, player, track_speed, track_current_time,
                   track_total_time, track_timer, track_title,
                   track_current_time_label, track_total_time_label,
                   track_bar, speed_button, err, log, last, fn_call>>
    /\ UNCHANGED appvars

FormatTime ==
    /\ fn_call.name = "format_time"
    /\ Returns(format_time(fn_call.n))

CheckPath ==
    /\ fn_call.name = "check_path"
    /\ Returns(check_path(fn_call.path, fn_call.type))

CallsNext ==
    \/ FormatTime
    \/ CheckPath

SpecCalls == InitCalls /\ [][CallsNext]_vars

\* A user who loads a file, presses play and leaves the player to itself.
UnattendedNext ==
    \/ LoadFile
    \/ Play
    \/ Tick
    \/ DecoderOpened
    \/ DecoderAdvance
    \/ DecoderEnded

\* The timer fires as long as it is active and the decoder thread runs.
SpecUnattended ==
    /\ Init
    /\ [][UnattendedNext]_vars
    /\ WF_vars(Tick)
    /\ WF_vars(DecoderOpened)
    /\ WF_vars(DecoderAdvance)
    /\ WF_vars(DecoderEnded)

-----------------------------------------------------------------------------
(* Properties *)

\* The positions, in milliseconds, the last step handed to player.set_time.
Handed == {log[i].arg : i \in {j \in 1..Len(log) : log[j].call = "set_time"}}

\* The decoder calls the last step made, by name.
Called(name) == \E i \in 1..Len(log) : log[i].call = name

\* C1: in every reachable state with a decodable track loaded, the playback
\* position satisfies 0 <= track_current_time <= track_total_time.
C1_PositionWithinTrack ==
    Readable(track) =>
        (0 <= track_current_time /\ track_current_time <= track_total_time)

\* C2: with a track loaded, a load of a source that is not a readable audio
\* resource ends in an error and leaves the media handle, the track name, the
\* displayed title, the total duration and the current position as they were.
C2_FailedLoadChangesNothing ==
    [][(/\ Readable(track)
        /\ last'.op = "load_audio"
        /\ ~Readable(last'.path))
       => (/\ err' # "none"
           /\ UNCHANGED <<track, track_name, track_title, track_total_time,
                          track_current_time>>)]_vars

\* C3: a load that succeeds, from any prior state, makes the given file the
\* loaded track, sets the position to 0, the title to the given name and the
\* total-duration label to the formatted duration of the new track.
C3_LoadReplacesAndResets ==
    (last.op = "load_audio" /\ err = "none" /\ Readable(last.path)) =>
        /\ track = last.path
        /\ player.media = last.path
        /\ track_current_time = 0
        /\ track_title = last.name
        /\ track_total_time_label = format_time(FileDuration(last.path) \div 1000)

\* C4: after stop(), called from any state (by the stop button or by the
\* polling tick), the decoder is stopped, the position is 0, the polling timer
\* is inactive, the current-time label reads "00:00" and the bar's value is 0.
C4_StopResets ==
    Called("stop") =>
        /\ player.state = "Stopped"
        /\ track_current_time = 0
        /\ ~track_timer
        /\ track_current_time_label = "00:00"
        /\ track_bar = 0

\* C4's case: stop() pressed during playback.
C4_Witness ==
    /\ last.op = "stop"
    /\ last.state = "Playing"
    /\ Called("stop")
    /\ Readable(track)

\* C5: whenever the polling timer is active, the decoder is playing.
C5_TimerOnlyWhilePlaying ==
    track_timer => player.state = "Playing"

\* C6: after pause(), called from any state, the decoder is not playing and
\* the polling timer is inactive.
C6_PauseSuspends ==
    last.op = "pause" => (player.state # "Playing" /\ ~track_timer)

\* C7: seek(seconds) on a loaded track hands the decoder a position within
\* [0, totalDuration], whatever integer it is given.
C7_SeekClamps ==
    (last.op = "seek" /\ Readable(track)) =>
        \A ms \in Handed : 0 <= ms /\ ms <= track_total_time * 1000

\* C8: seek on a loaded track whose decoder is paused, stopped or ended passes
\* through a play state, sets the decoder position and ends with the decoder
\* paused and the timer inactive; seek while playing leaves the decoder
\* playing and the timer active.
C8_SeekKeepsTransportState ==
    (last.op = "seek" /\ Readable(track)) =>
        /\ last.state \in {"Paused", "Stopped", "Ended"} =>
              /\ \E i \in 1..Len(log) : log[i].state = "Playing"
              /\ Called("set_time")
              /\ player.state = "Paused"
              /\ ~track_timer
        /\ last.state = "Playing" =>
              /\ player.state = "Playing"
              /\ track_timer

\* C9: skip_forward(seconds) and skip_backwards(seconds), with seconds >= 0,
\* on a track that is playing or paused hand the decoder a position that is
\* at least 0 and at most the total duration.
C9_SkipClamps ==
    (/\ last.op \in {"skip_forward", "skip_backwards"}
     /\ last.state \in {"Playing", "Paused"}
     /\ Readable(track)) =>
        \A ms \in Handed : 0 <= ms /\ ms <= track_total_time * 1000

\* The speed after s in the ordered set {0.5, 1, 1.5, 2}, in tenths, the
\* first following the last.
SpeedAfter(s) ==
    CASE s = 5 -> 10
      [] s = 10 -> 15
      [] s = 15 -> 20
      [] s = 20 -> 5

\* C10: switch_speed moves the speed to the next element of {0.5, 1, 1.5, 2},
\* from 2 to 0.5, and sets it as the decoder's rate; four applications from
\* any state give the speed back.
C10_SpeedCycles ==
    /\ track_speed \in {5, 10, 15, 20}
    /\ last.op = "switch_speed" =>
          /\ track_speed = SpeedAfter(last.speed)
          /\ player.rate = track_speed
          /\ log = <<[call |-> "set_rate", arg |-> track_speed, state |-> player.state]>>
    /\ switch_speed(switch_speed(switch_speed(switch_speed(Self)))).track_speed
          = track_speed

\* C10's case: the speed wraps from 2 to 0.5.
C10_Witness ==
    /\ last.op = "switch_speed"
    /\ last.speed = 20
    /\ track_speed = 5
    /\ player.rate = 5

\* The position, in seconds, a polling tick reads from the decoder.
PolledPosition == VlcGetTime(player) \div 1000

C12_ClickSeeksWithinTrack ==
    [][last'.op = "track_bar_clicked" =>
          LET pct == (last'.n * 100) \div BarWidth
              num == pct * track_total_time
              target == IF num % 100 = 0 THEN num \div 100 ELSE num \div 100 + 1
          IN  /\ pct \in 0..100
              /\ track_current_time' = target
              /\ Handed' = {target * 1000}
              /\ 0 <= track_current_time'
              /\ track_current_time' <= track_total_time']_vars

\* round(a / b * 100) for a >= 0 and b > 0, clamped to 0..100
RoundedPercent(a, b) == Max(0, Min(100, (200 * a + b) \div (2 * b)))

\* C13: in every reachable state with a decodable track of total duration
\* > 0 loaded, the progress value is round(current_time / total_time * 100)
\* clamped to [0, 100].
C13_BarIsRoundedPercent ==
    (Readable(track) /\ track_total_time > 0 /\ track_current_time >= 0) =>
        track_bar = RoundedPercent(track_current_time, track_total_time)

\* The steps a user takes.
UserOps == {"load_audio", "play", "pause", "stop", "skip_forward",
            "skip_backwards", "seek", "switch_speed", "track_bar_clicked"}

\* C19: once the decoder has begun to play a loaded track, then, unless the
\* user acts again, a state is eventually reached in which stop() has run:
\* the decoder is stopped, the timer inactive and the position shown is 0.
C19_PlaybackEventuallyStops ==
    (player.state = "Playing" /\ Readable(track) /\ track_timer /\ last.op = "decoder")
        ~> \/ /\ player.state = "Stopped"
              /\ ~track_timer
              /\ track_current_time = 0
              /\ track_current_time_label = "00:00"
           \/ last.op \in UserOps

\* The number a string of decimal digits denotes; -1 if it is not one.
RECURSIVE ParseNat(_)
ParseNat(str) ==
    LET Digit(c) ==
            CASE c = "0" -> 0 [] c = "1" -> 1 [] c = "2" -> 2 [] c = "3" -> 3
              [] c = "4" -> 4 [] c = "5" -> 5 [] c = "6" -> 6 [] c = "7" -> 7
              [] c = "8" -> 8 [] c = "9" -> 9 [] OTHER -> -1
        n == Len(str)
    IN  IF n = 0
        THEN -1
        ELSE LET d == Digit(SubSeq(str, n, n))
                 rest == IF n = 1 THEN 0 ELSE ParseNat(SubSeq(str, 1, n - 1))
             IN  IF d < 0 \/ rest < 0 THEN -1 ELSE rest * 10 + d

\* The seconds a five-character MM:SS string denotes; -1 if it is not one.
ParseTime(str) ==
    IF Len(str) = 5 /\ SubSeq(str, 3, 3) = ":"
                    /\ ParseNat(SubSeq(str, 1, 2)) >= 0
                    /\ ParseNat(SubSeq(str, 4, 5)) \in 0..59
    THEN ParseNat(SubSeq(str, 1, 2)) * 60 + ParseNat(SubSeq(str, 4, 5))
    ELSE -1

C20_CheckPathReturnsPathOrFalse ==
    (fn_call.name = "check_path" /\ fn_result # "unset") =>
        LET path == PathOf(fn_call.path)
            type == fn_call.type
            matches ==
                /\ Exists(path)
                /\ \/ type = "image" /\ IsFile(path) /\ Suffix(path) \in {".jpg", ".png", ".jpeg"}
                   \/ type = "pdf" /\ IsFile(path) /\ Suffix(path) \in {".pdf"}
                   \/ type = "audio" /\ IsFile(path) /\ Suffix(path) \in {".ogg", ".wav", ".mp3", ".raw"}
                   \/ type = "folder" /\ ~IsFile(path)
        IN  fn_result = IF matches THEN path ELSE "False"

\* The path load_pdf was given does not name an existing regular file with
\* the extension .pdf.
BadPdfPath(path) ==
    LET pdf_path == PathOf(path)
    IN  ~(Exists(pdf_path) /\ IsFile(pdf_path) /\ Suffix(pdf_path) = ".pdf")

\* C15: load_pdf on a path that does not exist, is not a regular file or
\* has no .pdf extension reports the failure and aborts: extraction and
\* synthesis are not started and no player state changes.
C15_BadPdfPathReportedAndIgnored ==
    [][(last'.op = "load_pdf" /\ BadPdfPath(last'.path)) =>
          /\ console' # <<>>
          /\ stages' = <<"check_path">>
          /\ UNCHANGED <<track, track_name, player, track_speed,
                         track_current_time, track_total_time, track_timer,
                         track_title, track_current_time_label,
                         track_total_time_label, track_bar, speed_button,
                         speech, files, registered>>]_vars

\* C16: pdf_to_audio runs extract_text, then text_to_speech, then load_audio,
\* in that order; when a stage fails no later stage runs and the loaded
\* track, its name, the title, the total duration and the speech reference
\* stay as they were.
C16_ConversionStagesAtomic ==
    [][(last'.op = "load_pdf" /\ Len(stages') > 1) =>
          LET order == <<"check_path", "extract_text", "text_to_speech", "load_audio">>
              loadFailed == Len(stages') = 4 /\ files'[speech'] # "audio"
          IN  /\ stages' = SubSeq(order, 1, Len(stages'))
              /\ err' = "PdfReadError" => Len(stages') = 2
              /\ err' = "RuntimeError" => Len(stages') = 3
              /\ (err' # "none" \/ loadFailed) =>
                     UNCHANGED <<track, track_name, track_title,
                                 track_total_time, track_total_time_label,
                                 speech>>]_vars

\* C17: save_audio copies the speech file of the loaded track to the chosen
\* destination when a track is loaded, does nothing when none is, and never
\* ends in an unhandled error, a cancelled save dialog included.
C17_SaveCopiesOrDoesNothing ==
    [][last'.op = "save_audio" =>
          /\ err' = "none"
          /\ track = "None" => copies' = copies
          /\ (track # "None" /\ last'.path # "") =>
                 copies' = copies \cup {<<speech, last'.path>>}
          /\ UNCHANGED <<track, track_name, player, speech, files>>]_vars

\* C18: every temp file text_to_speech creates is registered for deletion at
\* exit, whether or not the synthesis succeeds, and none exists once the
\* interpreter has exited.
C18_TempFilesRegisteredAndRemoved ==
    /\ DOMAIN files \subseteq registered
    /\ process = "exited" => DOMAIN files = {}

\* C21: the polling tick never divides by a zero total: whenever
\* update_player takes the branch that computes current_time / total_time,
\* track_total_time is not zero.
C21_TickNeverDividesByZero ==
    [][(last'.op = "update_player" /\ track_current_time <= track_total_time - 1) =>
          track_total_time # 0]_vars

\* C22: whenever the decoder is playing the polling timer is active: no
\* sequence of play, pause, stop, seek and progress-bar clicks reaches a
\* state where the decoder plays while the timer is inactive.
C22_TimerActiveWhilePlaying ==
    player.state = "Playing" => track_timer

====
